---- MODULE Spec2Model ----
(***************************************************************************)
(* SQLiteAlertStorage: the alerts repository over one database file.       *)
(* The file holds up to four tables (the legacy alerts table, alerts_v2,   *)
(* alertAssets, alertAssetPlayOrderItems); every public method is one      *)
(* action; an engine failure (prepare, bind, step, reset of a statement)   *)
(* is an input of the action that names the statement that fails.          *)
(***************************************************************************)
EXTENDS Integers, Sequences, FiniteSets, TLC

\* ------------------------------------------------------------------ bounds
\* Number of public calls in one behaviour.
MaxOps == 4
\* Number of engine failures injected in one behaviour.
MaxFailures == 1
\* Largest id of a row of the legacy alerts table of an initial V1 file.
MaxV1Id == 3

\* ------------------------------------------------------------------ codec
ALERT_EVENT_TYPE_ALARM == 1
ALERT_EVENT_TYPE_TIMER == 2
ALERT_EVENT_TYPE_REMINDER == 3

ALERT_STATE_UNSET == 1
ALERT_STATE_SET == 2
ALERT_STATE_ACTIVATING == 3
ALERT_STATE_ACTIVE == 4
ALERT_STATE_SNOOZING == 5
ALERT_STATE_SNOOZED == 6
ALERT_STATE_STOPPING == 7
ALERT_STATE_STOPPED == 8
ALERT_STATE_COMPLETED == 9
ALERT_STATE_READY == 10

ALERTS_DATABASE_VERSION_ONE == 1
ALERTS_DATABASE_VERSION_TWO == 2

\* Alert::State
AlertStates ==
    {"UNSET", "SET", "READY", "ACTIVATING", "ACTIVE", "SNOOZING", "SNOOZED",
     "STOPPING", "STOPPED", "COMPLETED"}

alertTypeToDbField(alertType) ==
    IF alertType = "ALARM" THEN [ok |-> TRUE, v |-> ALERT_EVENT_TYPE_ALARM]
    ELSE IF alertType = "TIMER" THEN [ok |-> TRUE, v |-> ALERT_EVENT_TYPE_TIMER]
    ELSE IF alertType = "REMINDER" THEN [ok |-> TRUE, v |-> ALERT_EVENT_TYPE_REMINDER]
    ELSE [ok |-> FALSE, v |-> ALERT_EVENT_TYPE_ALARM]

\* Alert::State numbered in the order of its declaration.
alertStateToDbField_declarationOrder(state) ==
    CASE state = "UNSET" -> [ok |-> TRUE, v |-> 1]
      [] state = "SET" -> [ok |-> TRUE, v |-> 2]
      [] state = "READY" -> [ok |-> TRUE, v |-> 3]
      [] state = "ACTIVATING" -> [ok |-> TRUE, v |-> 4]
      [] state = "ACTIVE" -> [ok |-> TRUE, v |-> 5]
      [] state = "SNOOZING" -> [ok |-> TRUE, v |-> 6]
      [] state = "SNOOZED" -> [ok |-> TRUE, v |-> 7]
      [] state = "STOPPING" -> [ok |-> TRUE, v |-> 8]
      [] state = "STOPPED" -> [ok |-> TRUE, v |-> 9]
      [] state = "COMPLETED" -> [ok |-> TRUE, v |-> 10]
      [] OTHER -> [ok |-> FALSE, v |-> 2]

alertStateToDbField(state) ==
    CASE state = "UNSET" -> [ok |-> TRUE, v |-> ALERT_STATE_UNSET]
      [] state = "SET" -> [ok |-> TRUE, v |-> ALERT_STATE_SET]
      [] state = "READY" -> [ok |-> TRUE, v |-> ALERT_STATE_READY]
      [] state = "ACTIVATING" -> [ok |-> TRUE, v |-> ALERT_STATE_ACTIVATING]
      [] state = "ACTIVE" -> [ok |-> TRUE, v |-> ALERT_STATE_ACTIVE]
      [] state = "SNOOZING" -> [ok |-> TRUE, v |-> ALERT_STATE_SNOOZING]
      [] state = "SNOOZED" -> [ok |-> TRUE, v |-> ALERT_STATE_SNOOZED]
      [] state = "STOPPING" -> [ok |-> TRUE, v |-> ALERT_STATE_STOPPING]
      [] state = "STOPPED" -> [ok |-> TRUE, v |-> ALERT_STATE_STOPPED]
      [] state = "COMPLETED" -> [ok |-> TRUE, v |-> ALERT_STATE_COMPLETED]
      [] OTHER -> [ok |-> FALSE, v |-> ALERT_STATE_SET]

\* The second argument is the value *state holds before the call: it is left
\* alone when the conversion fails.
dbFieldToAlertState(dbState, state) ==
    CASE dbState = ALERT_STATE_UNSET -> [ok |-> TRUE, v |-> "UNSET"]
      [] dbState = ALERT_STATE_SET -> [ok |-> TRUE, v |-> "SET"]
      [] dbState = ALERT_STATE_READY -> [ok |-> TRUE, v |-> "READY"]
      [] dbState = ALERT_STATE_ACTIVATING -> [ok |-> TRUE, v |-> "ACTIVATING"]
      [] dbState = ALERT_STATE_ACTIVE -> [ok |-> TRUE, v |-> "ACTIVE"]
      [] dbState = ALERT_STATE_SNOOZING -> [ok |-> TRUE, v |-> "SNOOZING"]
      [] dbState = ALERT_STATE_SNOOZED -> [ok |-> TRUE, v |-> "SNOOZED"]
      [] dbState = ALERT_STATE_STOPPING -> [ok |-> TRUE, v |-> "STOPPING"]
      [] dbState = ALERT_STATE_STOPPED -> [ok |-> TRUE, v |-> "STOPPED"]
      [] dbState = ALERT_STATE_COMPLETED -> [ok |-> TRUE, v |-> "COMPLETED"]
      [] OTHER -> [ok |-> FALSE, v |-> state]

\* ------------------------------------------------------------- alert objects
Tokens == {"t1", "t2"}

\* The order in which the asset catalog of an alert is iterated.
AvsOrder == <<"a", "b">>

EmptyAssets == [x \in {} |-> ""]

\* Alert::setTime_ISO_8601: the unix time is derived from the ISO string.
\* An ISO string is a small number here, the unix time a multiple of it.
setTime_ISO_8601(iso) == iso * 100

\* The contents of an alert apart from its token and database id.
Payloads ==
    { [typeName |-> "ALARM", state |-> "SET", iso |-> 1, loopCount |-> 0,
       loopPause |-> 0, bg |-> "", assets |-> EmptyAssets, play |-> << >>],
      [typeName |-> "TIMER", state |-> "ACTIVE", iso |-> 2, loopCount |-> 1,
       loopPause |-> 2, bg |-> "a",
       assets |-> [x \in {"a", "b"} |-> IF x = "a" THEN "u1" ELSE "u2"],
       play |-> <<"b", "a", "b">>] }

\* An Alert object (Alarm, Timer or Reminder: typeName is getTypeName()).
Alert(token, p, dbId) ==
    [token |-> token, typeName |-> p.typeName, state |-> p.state,
     iso |-> p.iso, unix |-> setTime_ISO_8601(p.iso),
     loopCount |-> p.loopCount, loopPause |-> p.loopPause, bg |-> p.bg,
     assets |-> p.assets, play |-> p.play, dbId |-> dbId]

\* Stands for "no alert object" in the record of the last call.
NoAlert ==
    [token |-> "", typeName |-> "", state |-> "", iso |-> 0, unix |-> 0,
     loopCount |-> 0, loopPause |-> 0, bg |-> "", assets |-> EmptyAssets,
     play |-> << >>, dbId |-> 0]

\* --------------------------------------------------------------- the file
NoTable == [present |-> FALSE, rows |-> << >>]
EmptyTable == [present |-> TRUE, rows |-> << >>]

\* No file at the path.
NoFile ==
    [exists |-> FALSE, alerts |-> NoTable, alerts_v2 |-> NoTable,
     alertAssets |-> NoTable, alertAssetPlayOrderItems |-> NoTable]

\* ------------------------------------------------------------ engine faults
\* The statement of the call that fails; k counts rows or list positions.
\* n is the turn of a loop of calls (the n-th alert of the migration, the n-th
\* id of a batch erase) in which the statement fails, 0 outside such a loop.
NoFault == [at |-> "none", k |-> 0, n |-> 0]
Fault(at, k, n) == [at |-> at, k |-> k, n |-> n]

\* A local value of a function body: F applied to the value v.
Bind(v, F(_)) == F(v)

\* SQLiteUtils getTableMaxIntValue: the largest id of the table, 0 when empty.
RECURSIVE MaxIdOf(_)
MaxIdOf(rows) ==
    IF rows = << >> THEN 0
    ELSE LET m == MaxIdOf(Tail(rows)) IN
         IF Head(rows).id > m THEN Head(rows).id ELSE m

getTableMaxIntValue(table, fails) ==
    [ok |-> table.present /\ ~fails, v |-> MaxIdOf(table.rows)]

InsertRow(table, row) == [table EXCEPT !.rows = Append(@, row)]

\* ------------------------------------------------------------- existence
alertExistsByAlertId(db, alertId, fails) ==
    /\ db.alerts_v2.present
    /\ ~fails
    /\ \E i \in DOMAIN db.alerts_v2.rows : db.alerts_v2.rows[i].id = alertId

alertExists(db, token, fails) ==
    /\ db.alerts_v2.present
    /\ ~fails
    /\ \E i \in DOMAIN db.alerts_v2.rows : db.alerts_v2.rows[i].token = token

\* ------------------------------------------------------------------ store
\* The keys of an asset catalog in iteration order.
AssetKeys(assets) == SelectSeq(AvsOrder, LAMBDA x : x \in DOMAIN assets)

\* The id is not advanced at the end of a turn of the loop.
storeAlertAssets_noIncrement(db, alertId, assets, f) ==
    LET keys == AssetKeys(assets)
        max == getTableMaxIntValue(db.alertAssets, FALSE)
        rows == [i \in 1..Len(keys) |->
                    [id |-> max.v + 1, alert_id |-> alertId,
                     avs_id |-> keys[i], url |-> assets[keys[i]]]]
    IN  IF Len(keys) = 0 THEN [ok |-> TRUE, db |-> db]
        ELSE IF ~max.ok THEN [ok |-> FALSE, db |-> db]
        ELSE [ok |-> TRUE,
              db |-> [db EXCEPT !.alertAssets.rows = @ \o rows]]

\* Inserts one row per asset of the catalog, with ids max+1, max+2, ...
\* A fault "assets" with k rows written stops the loop after k rows.
storeAlertAssets(db, alertId, assets, f) ==
    LET keys == AssetKeys(assets)
        n == Len(keys)
        max == getTableMaxIntValue(db.alertAssets, f.at = "assets" /\ f.k = 0)
        fails == f.at = "assets" /\ f.k <= n
        written == IF fails THEN f.k ELSE n
        rows == [i \in 1..written |->
                    [id |-> max.v + i, alert_id |-> alertId,
                     avs_id |-> keys[i], url |-> assets[keys[i]]]]
    IN  IF n = 0 THEN [ok |-> TRUE, db |-> db]
        ELSE IF ~max.ok THEN [ok |-> FALSE, db |-> db]
        ELSE [ok |-> ~fails,
              db |-> [db EXCEPT !.alertAssets.rows = @ \o rows]]

\* Inserts one row per play-order item, positions 1, 2, ... in list order.
\* A fault "play" with k rows written stops the loop after k rows.
storeAlertAssetPlayOrderItems(db, alertId, play, f) ==
    LET n == Len(play)
        max == getTableMaxIntValue(db.alertAssetPlayOrderItems,
                                   f.at = "play" /\ f.k = 0)
        fails == f.at = "play" /\ f.k <= n
        written == IF fails THEN f.k ELSE n
        rows == [i \in 1..written |->
                    [id |-> max.v + i, alert_id |-> alertId,
                     asset_play_order_position |-> i,
                     asset_play_order_token |-> play[i]]]
    IN  IF n = 0 THEN [ok |-> TRUE, db |-> db]
        ELSE IF ~max.ok THEN [ok |-> FALSE, db |-> db]
        ELSE [ok |-> ~fails,
              db |-> [db EXCEPT !.alertAssetPlayOrderItems.rows = @ \o rows]]

\* The row of alerts_v2 that store binds for an alert.
AlertRow(id, alert, alertType, alertState) ==
    [id |-> id, token |-> alert.token, type |-> alertType,
     state |-> alertState, unix |-> alert.unix, iso |-> alert.iso,
     loopCount |-> alert.loopCount, loopPause |-> alert.loopPause,
     bg |-> alert.bg]

\* store(alert) on the file db with the handle isOpen; the result is the
\* return value, the file and the alert object after the call.
\* The id store gives the alert: one more than the largest id of alerts_v2.
GenerateAlertId_wrongTable(db, f) ==
    Bind(getTableMaxIntValue(db.alertAssets, f.at = "maxid"), LAMBDA m :
         [ok |-> m.ok, v |-> m.v + 1])

GenerateAlertId_noIncrement(db, f) ==
    getTableMaxIntValue(db.alerts_v2, f.at = "maxid")

GenerateAlertId(db, f) ==
    Bind(getTableMaxIntValue(db.alerts_v2, f.at = "maxid"), LAMBDA m :
         [ok |-> m.ok, v |-> m.v + 1])

store(isOpen, db, alert, f) ==
    LET failed == [ok |-> FALSE, db |-> db, alert |-> alert]
        max == GenerateAlertId(db, f)
        id == max.v
        alertType == alertTypeToDbField(alert.typeName)
        alertState == alertStateToDbField(alert.state)
        db1 == [db EXCEPT !.alerts_v2 =
                   InsertRow(@, AlertRow(id, alert, alertType.v, alertState.v))]
        alert1 == [alert EXCEPT !.dbId = id]
    IN  IF ~isOpen THEN failed
        ELSE IF alertExists(db, alert.token, f.at = "exists") THEN failed
        ELSE IF ~max.ok THEN failed
        ELSE IF ~alertType.ok THEN failed
        ELSE IF ~alertState.ok THEN failed
        ELSE IF f.at = "insert" \/ alertExistsByAlertId(db, id, FALSE)
             THEN failed
        ELSE Bind(storeAlertAssets(db1, id, alert.assets, f), LAMBDA r2 :
             IF ~r2.ok THEN [ok |-> FALSE, db |-> r2.db, alert |-> alert1]
             ELSE Bind(storeAlertAssetPlayOrderItems(r2.db, id, alert.play, f),
                       LAMBDA r3 :
                          [ok |-> r3.ok, db |-> r3.db, alert |-> alert1]))

\* ------------------------------------------------------------------- load
\* The rows a SELECT * loop reads: the first step is checked by the caller,
\* a later step that fails ends the loop as if the table had ended there.
Scanned(rows, f, at) ==
    IF f.at = at /\ f.k >= 1 /\ f.k < Len(rows) THEN SubSeq(rows, 1, f.k)
    ELSE rows

\* alertAssetsMap: alert_id -> the assets of its rows, in row order.
loadAlertAssets(db, f) ==
    LET rows == Scanned(db.alertAssets.rows, f, "scanAssets")
        ids == {rows[i].alert_id : i \in DOMAIN rows}
        of(aid) == SelectSeq(rows, LAMBDA r : r.alert_id = aid)
    IN  [ok |-> db.alertAssets.present /\ f.at # "loadAssets",
         map |-> [aid \in ids |->
                    [i \in 1..Len(of(aid)) |->
                        [id |-> of(aid)[i].avs_id, url |-> of(aid)[i].url]]]]

\* AssetOrderItemCompare: two items are the same element of the set when
\* their index is the same.
AssetOrderItemCompare(lhs, rhs) == lhs.index < rhs.index

\* std::set<AssetOrderItem, AssetOrderItemCompare>::insert, the set held as
\* the sequence of its elements in ascending order.
RECURSIVE SetInsertAll(_, _)
SetInsertAll(set, items) ==
    IF items = << >> THEN set
    ELSE LET x == Head(items)
             same == \E j \in DOMAIN set :
                        /\ ~AssetOrderItemCompare(set[j], x)
                        /\ ~AssetOrderItemCompare(x, set[j])
             before == SelectSeq(set, LAMBDA y : AssetOrderItemCompare(y, x))
             after == SelectSeq(set, LAMBDA y : AssetOrderItemCompare(x, y))
         IN  SetInsertAll(IF same THEN set ELSE before \o <<x>> \o after,
                          Tail(items))

\* alertAssetOrderItemsMap: alert_id -> the set of its play-order items.
loadAlertAssetPlayOrderItems(db, f) ==
    LET rows == Scanned(db.alertAssetPlayOrderItems.rows, f, "scanPlay")
        ids == {rows[i].alert_id : i \in DOMAIN rows}
        of(aid) == SelectSeq(rows, LAMBDA r : r.alert_id = aid)
        items(aid) == [i \in 1..Len(of(aid)) |->
                        [index |-> of(aid)[i].asset_play_order_position,
                         name |-> of(aid)[i].asset_play_order_token]]
    IN  [ok |-> db.alertAssetPlayOrderItems.present /\ f.at # "loadPlay",
         map |-> [aid \in ids |-> SetInsertAll(<< >>, items(aid))]]

\* The type name of the object made for a type code ("" when there is none).
TypeNameOfCode(type) ==
    IF type = ALERT_EVENT_TYPE_ALARM THEN "ALARM"
    ELSE IF type = ALERT_EVENT_TYPE_TIMER THEN "TIMER"
    ELSE IF type = ALERT_EVENT_TYPE_REMINDER THEN "REMINDER"
    ELSE ""

\* The row loop of loadHelper: one alert is pushed per row until a row has
\* no known type or state.
RECURSIVE LoadRows(_, _)
LoadRows(rows, container) ==
    IF rows = << >> THEN [ok |-> TRUE, out |-> container]
    ELSE LET r == Head(rows)
             name == TypeNameOfCode(r.type)
             st == dbFieldToAlertState(r.state, "SET")
             alert == [token |-> r.token, typeName |-> name, state |-> st.v,
                       iso |-> r.iso, unix |-> setTime_ISO_8601(r.iso),
                       loopCount |-> r.loopCount, loopPause |-> r.loopPause,
                       bg |-> r.bg, assets |-> EmptyAssets, play |-> << >>,
                       dbId |-> r.id]
         IN  IF name = "" \/ ~st.ok THEN [ok |-> FALSE, out |-> container]
             ELSE LoadRows(Tail(rows), Append(container, alert))

\* The last loop of loadHelper, for one alert of the container.
Attach(alert, assetsMap, itemsMap) ==
    LET as == IF alert.dbId \in DOMAIN assetsMap
              THEN assetsMap[alert.dbId] ELSE << >>
        its == IF alert.dbId \in DOMAIN itemsMap
               THEN itemsMap[alert.dbId] ELSE << >>
        keys == DOMAIN alert.assets \cup {as[i].id : i \in DOMAIN as}
        last(x) == CHOOSE j \in DOMAIN as :
                      /\ as[j].id = x
                      /\ \A l \in DOMAIN as : l > j => as[l].id # x
    IN  [alert EXCEPT
            !.assets = [x \in keys |->
                          IF \E j \in DOMAIN as : as[j].id = x
                          THEN as[last(x)].url ELSE alert.assets[x]],
            !.play = @ \o [i \in 1..Len(its) |-> its[i].name]]

\* loadHelper(dbVersion, alertContainer): the return value and the container
\* after the call.
loadHelper(isOpen, db, dbVersion, container, f) ==
    LET table == IF dbVersion = ALERTS_DATABASE_VERSION_TWO
                 THEN db.alerts_v2 ELSE db.alerts
    IN  IF ~isOpen THEN [ok |-> FALSE, out |-> container]
        ELSE IF dbVersion # ALERTS_DATABASE_VERSION_ONE
                /\ dbVersion # ALERTS_DATABASE_VERSION_TWO
             THEN [ok |-> FALSE, out |-> container]
        ELSE IF ~table.present \/ f.at = "loadAlerts"
             THEN [ok |-> FALSE, out |-> container]
        ELSE Bind(LoadRows(Scanned(table.rows, f, "scanAlerts"), container),
                  LAMBDA r1 :
             IF ~r1.ok THEN r1
             ELSE Bind(loadAlertAssets(db, f), LAMBDA r2 :
             IF ~r2.ok THEN [ok |-> FALSE, out |-> r1.out]
             ELSE Bind(loadAlertAssetPlayOrderItems(db, f), LAMBDA r3 :
             IF ~r3.ok THEN [ok |-> FALSE, out |-> r1.out]
             ELSE [ok |-> TRUE,
                   out |-> [i \in 1..Len(r1.out) |->
                               Attach(r1.out[i], r2.map, r3.map)]])))

load(isOpen, db, container, f) ==
    loadHelper(isOpen, db, ALERTS_DATABASE_VERSION_TWO, container, f)

\* ------------------------------------------------- close, create, migrate, open
close_releasesAlways(isOpen) == [isOpen |-> FALSE, released |-> TRUE]

close_keepsHandle(isOpen) == [isOpen |-> isOpen, released |-> FALSE]

\* close(): m_dbHandle after the call, and whether closeSQLiteDatabase was
\* called on the engine handle.
close(isOpen) == [isOpen |-> FALSE, released |-> isOpen]

\* createDatabase: acquired tells whether createSQLiteDatabase gave a handle,
\* released whether the call gave it back.
createDatabase(isOpen, db, f) ==
    LET unchanged == [ok |-> FALSE, db |-> db, isOpen |-> isOpen,
                      acquired |-> FALSE, released |-> FALSE]
        closed == close(TRUE)
        failedWith(d) == [ok |-> FALSE, db |-> d, isOpen |-> closed.isOpen,
                          acquired |-> TRUE, released |-> closed.released]
        db0 == [NoFile EXCEPT !.exists = TRUE]
        db1 == [db0 EXCEPT !.alerts_v2 = EmptyTable]
        db2 == [db1 EXCEPT !.alertAssets = EmptyTable]
        db3 == [db2 EXCEPT !.alertAssetPlayOrderItems = EmptyTable]
    IN  IF isOpen THEN unchanged
        ELSE IF db.exists THEN unchanged
        ELSE IF f.at = "createFile" THEN unchanged
        ELSE IF f.at = "createAlerts" THEN failedWith(db0)
        ELSE IF f.at = "createAssets" THEN failedWith(db1)
        ELSE IF f.at = "createPlay" THEN failedWith(db2)
        ELSE [ok |-> TRUE, db |-> db3, isOpen |-> TRUE,
              acquired |-> TRUE, released |-> FALSE]

\* The loop of the migration: store of each loaded V1 alert, n-th first;
\* stored lists the ids the successful stores assigned.
RECURSIVE MigrateStores(_, _, _, _)
MigrateStores(db, alerts, n, f) ==
    IF alerts = << >> THEN [ok |-> TRUE, db |-> db, stored |-> << >>]
    ELSE Bind(store(TRUE, db, Head(alerts), IF f.n = n THEN f ELSE NoFault),
              LAMBDA r :
                 IF ~r.ok THEN [ok |-> FALSE, db |-> r.db, stored |-> << >>]
                 ELSE Bind(MigrateStores(r.db, Tail(alerts), n + 1, f),
                           LAMBDA rest :
                              [rest EXCEPT
                                 !.stored = <<r.alert.dbId>> \o @]))

\* The tables the migration creates: all three, a child table only when it
\* is not there; the result is the file when the creation stops.
MigrateTables(db, f) ==
    LET db1 == [db EXCEPT !.alerts_v2 = EmptyTable]
        db2 == [db1 EXCEPT !.alertAssets = EmptyTable]
    IN  IF f.at = "createAlerts" THEN [ok |-> FALSE, db |-> db]
        ELSE IF ~db.alertAssets.present /\ f.at = "createAssets"
             THEN [ok |-> FALSE, db |-> db1]
        ELSE IF ~db.alertAssetPlayOrderItems.present /\ f.at = "createPlay"
             THEN [ok |-> FALSE,
                   db |-> IF db.alertAssets.present THEN db1 ELSE db2]
        ELSE [ok |-> TRUE,
              db |-> [db EXCEPT
                        !.alerts_v2 = EmptyTable,
                        !.alertAssets =
                            IF @.present THEN @ ELSE EmptyTable,
                        !.alertAssetPlayOrderItems =
                            IF @.present THEN @ ELSE EmptyTable]]

migrateAlertsDbFromV1ToV2_always(db, f) ==
    Bind(MigrateTables(db, f), LAMBDA t :
         IF ~t.ok THEN [ok |-> FALSE, db |-> t.db, stored |-> << >>]
         ELSE IF ~t.db.alerts.present
              THEN [ok |-> TRUE, db |-> t.db, stored |-> << >>]
         ELSE Bind(loadHelper(TRUE, t.db, ALERTS_DATABASE_VERSION_ONE, << >>,
                              IF f.n = 0 THEN f ELSE NoFault),
                   LAMBDA v1 :
         IF ~v1.ok THEN [ok |-> FALSE, db |-> t.db, stored |-> << >>]
         ELSE Bind(MigrateStores(t.db, v1.out, 1, f), LAMBDA st :
         IF ~st.ok \/ f.at = "drop"
         THEN [ok |-> FALSE, db |-> st.db, stored |-> st.stored]
         ELSE [ok |-> TRUE, db |-> [st.db EXCEPT !.alerts = NoTable],
               stored |-> st.stored])))

migrateAlertsDbFromV1ToV2(db, f) ==
    IF db.alerts_v2.present THEN [ok |-> TRUE, db |-> db, stored |-> << >>]
    ELSE Bind(MigrateTables(db, f), LAMBDA t :
         IF ~t.ok THEN [ok |-> FALSE, db |-> t.db, stored |-> << >>]
         ELSE IF ~t.db.alerts.present
              THEN [ok |-> TRUE, db |-> t.db, stored |-> << >>]
         ELSE Bind(loadHelper(TRUE, t.db, ALERTS_DATABASE_VERSION_ONE, << >>,
                              IF f.n = 0 THEN f ELSE NoFault),
                   LAMBDA v1 :
         IF ~v1.ok THEN [ok |-> FALSE, db |-> t.db, stored |-> << >>]
         ELSE Bind(MigrateStores(t.db, v1.out, 1, f), LAMBDA st :
         IF ~st.ok \/ f.at = "drop"
         THEN [ok |-> FALSE, db |-> st.db, stored |-> st.stored]
         ELSE [ok |-> TRUE, db |-> [st.db EXCEPT !.alerts = NoTable],
               stored |-> st.stored])))

open_noHandleCheck(isOpen, db, f) ==
    LET unchanged == [ok |-> FALSE, db |-> db, isOpen |-> isOpen,
                      stored |-> << >>, acquired |-> FALSE,
                      released |-> FALSE]
        closed == close(TRUE)
    IN  IF ~db.exists THEN unchanged
        ELSE IF f.at = "openFile" THEN unchanged
        ELSE Bind(migrateAlertsDbFromV1ToV2(db, f), LAMBDA m :
                IF m.ok
                THEN [ok |-> TRUE, db |-> m.db, isOpen |-> TRUE,
                      stored |-> m.stored, acquired |-> TRUE,
                      released |-> FALSE]
                ELSE [ok |-> FALSE, db |-> m.db, isOpen |-> closed.isOpen,
                      stored |-> m.stored, acquired |-> TRUE,
                      released |-> closed.released])

open(isOpen, db, f) ==
    LET unchanged == [ok |-> FALSE, db |-> db, isOpen |-> isOpen,
                      stored |-> << >>, acquired |-> FALSE,
                      released |-> FALSE]
        closed == close(TRUE)
    IN  IF isOpen THEN unchanged
        ELSE IF ~db.exists THEN unchanged
        ELSE IF f.at = "openFile" THEN unchanged
        ELSE Bind(migrateAlertsDbFromV1ToV2(db, f), LAMBDA m :
                IF m.ok
                THEN [ok |-> TRUE, db |-> m.db, isOpen |-> TRUE,
                      stored |-> m.stored, acquired |-> TRUE,
                      released |-> FALSE]
                ELSE [ok |-> FALSE, db |-> m.db, isOpen |-> closed.isOpen,
                      stored |-> m.stored, acquired |-> TRUE,
                      released |-> closed.released])

\* ----------------------------------------------------------------- modify
UpdateRows_noWhere(rows, id, alertState, unix, iso) ==
    [i \in 1..Len(rows) |->
        [rows[i] EXCEPT !.state = alertState, !.unix = unix, !.iso = iso]]

\* UPDATE alerts_v2 SET state, scheduled_time_unix, scheduled_time_iso_8601
\* WHERE id = ?
UpdateRows(rows, id, alertState, unix, iso) ==
    [i \in 1..Len(rows) |->
        IF rows[i].id = id
        THEN [rows[i] EXCEPT !.state = alertState, !.unix = unix, !.iso = iso]
        ELSE rows[i]]

modify_noHandleCheck(isOpen, db, alert, f) ==
    LET failed == [ok |-> FALSE, db |-> db]
        alertState == alertStateToDbField(alert.state)
    IN  IF ~alertExists(db, alert.token, f.at = "exists") THEN failed
        ELSE IF ~alertState.ok THEN failed
        ELSE IF f.at = "update" THEN failed
        ELSE [ok |-> TRUE,
              db |-> [db EXCEPT !.alerts_v2.rows =
                        UpdateRows(@, alert.dbId, alertState.v,
                                   alert.unix, alert.iso)]]

modify(isOpen, db, alert, f) ==
    LET failed == [ok |-> FALSE, db |-> db]
        alertState == alertStateToDbField(alert.state)
    IN  IF ~isOpen THEN failed
        ELSE IF ~alertExists(db, alert.token, f.at = "exists") THEN failed
        ELSE IF ~alertState.ok THEN failed
        ELSE IF f.at = "update" THEN failed
        ELSE [ok |-> TRUE,
              db |-> [db EXCEPT !.alerts_v2.rows =
                        UpdateRows(@, alert.dbId, alertState.v,
                                   alert.unix, alert.iso)]]

\* ------------------------------------------------------------------ erase
eraseAlert(db, alertId, f) ==
    IF ~db.alerts_v2.present \/ f.at = "eraseAlert"
    THEN [ok |-> FALSE, db |-> db]
    ELSE [ok |-> TRUE,
          db |-> [db EXCEPT !.alerts_v2.rows =
                    SelectSeq(@, LAMBDA r : r.id # alertId)]]

eraseAlertAssets(db, alertId, f) ==
    IF ~db.alertAssets.present \/ f.at = "eraseAssets"
    THEN [ok |-> FALSE, db |-> db]
    ELSE [ok |-> TRUE,
          db |-> [db EXCEPT !.alertAssets.rows =
                    SelectSeq(@, LAMBDA r : r.alert_id # alertId)]]

eraseAlertAssetPlayOrderItems(db, alertId, f) ==
    IF ~db.alertAssetPlayOrderItems.present \/ f.at = "erasePlay"
    THEN [ok |-> FALSE, db |-> db]
    ELSE [ok |-> TRUE,
          db |-> [db EXCEPT !.alertAssetPlayOrderItems.rows =
                    SelectSeq(@, LAMBDA r : r.alert_id # alertId)]]

eraseAlertByAlertId(isOpen, db, alertId, f) ==
    IF ~isOpen THEN [ok |-> FALSE, db |-> db]
    ELSE Bind(eraseAlert(db, alertId, f), LAMBDA r1 :
         IF ~r1.ok THEN r1
         ELSE Bind(eraseAlertAssets(r1.db, alertId, f), LAMBDA r2 :
         IF ~r2.ok THEN r2
         ELSE eraseAlertAssetPlayOrderItems(r2.db, alertId, f)))

erase_noTokenCheck(isOpen, db, alert, f) ==
    IF ~isOpen THEN [ok |-> FALSE, db |-> db]
    ELSE eraseAlertByAlertId(isOpen, db, alert.dbId, f)

erase(isOpen, db, alert, f) ==
    IF ~isOpen THEN [ok |-> FALSE, db |-> db]
    ELSE IF ~alertExists(db, alert.token, f.at = "exists")
         THEN [ok |-> FALSE, db |-> db]
    ELSE eraseAlertByAlertId(isOpen, db, alert.dbId, f)

RECURSIVE EraseLoop_noExistenceCheck(_, _, _, _, _)
EraseLoop_noExistenceCheck(isOpen, db, ids, n, f) ==
    IF ids = << >> THEN [ok |-> TRUE, db |-> db]
    ELSE Bind(IF f.n = n THEN f ELSE NoFault, LAMBDA g :
         Bind(eraseAlertByAlertId(isOpen, db, Head(ids), g), LAMBDA r :
              IF ~r.ok THEN r
              ELSE EraseLoop_noExistenceCheck(isOpen, r.db, Tail(ids), n + 1,
                                              f)))

\* erase(alertDbIds): the loop over the list, n-th id first.
RECURSIVE EraseLoop(_, _, _, _, _)
EraseLoop(isOpen, db, ids, n, f) ==
    IF ids = << >> THEN [ok |-> TRUE, db |-> db]
    ELSE Bind(IF f.n = n THEN f ELSE NoFault, LAMBDA g :
         IF ~alertExistsByAlertId(db, Head(ids), g.at = "existsById")
         THEN [ok |-> FALSE, db |-> db]
         ELSE Bind(eraseAlertByAlertId(isOpen, db, Head(ids), g), LAMBDA r :
              IF ~r.ok THEN r
              ELSE EraseLoop(isOpen, r.db, Tail(ids), n + 1, f)))

eraseIds(isOpen, db, alertDbIds, f) ==
    IF ~isOpen THEN [ok |-> FALSE, db |-> db]
    ELSE EraseLoop(isOpen, db, alertDbIds, 1, f)

\* ------------------------------------------------------------------ clear
\* SQLiteUtils clearTable: DELETE FROM the table; it fails without a handle
\* and on a table that does not exist.
clearTable(isOpen, table, fails) ==
    IF ~isOpen \/ ~table.present \/ fails THEN [ok |-> FALSE, table |-> table]
    ELSE [ok |-> TRUE, table |-> EmptyTable]

clearDatabase_keepsAlerts(isOpen, db, f) ==
    LET c2 == clearTable(isOpen, db.alertAssets, f.at = "clearAssets")
        db2 == [db EXCEPT !.alertAssets = c2.table]
        c3 == clearTable(isOpen, db.alertAssetPlayOrderItems,
                         f.at = "clearPlay")
        db3 == [db2 EXCEPT !.alertAssetPlayOrderItems = c3.table]
    IN  IF ~c2.ok THEN [ok |-> FALSE, db |-> db]
        ELSE [ok |-> c3.ok, db |-> db3]

clearDatabase(isOpen, db, f) ==
    LET c1 == clearTable(isOpen, db.alerts_v2, f.at = "clearAlerts")
        db1 == [db EXCEPT !.alerts_v2 = c1.table]
        c2 == clearTable(isOpen, db.alertAssets, f.at = "clearAssets")
        db2 == [db1 EXCEPT !.alertAssets = c2.table]
        c3 == clearTable(isOpen, db.alertAssetPlayOrderItems,
                         f.at = "clearPlay")
        db3 == [db2 EXCEPT !.alertAssetPlayOrderItems = c3.table]
    IN  IF ~c1.ok THEN [ok |-> FALSE, db |-> db]
        ELSE IF ~c2.ok THEN [ok |-> FALSE, db |-> db1]
        ELSE [ok |-> c3.ok, db |-> db3]

\* ------------------------------------------------------------- printStats
\* StatLevel
StatLevels == {"ONE_LINE", "ALERTS_SUMMARY", "EVERYTHING"}

\* getNumberTableRows: the number of rows of a table of the file.
getNumberTableRows(isOpen, table, fails) ==
    IF ~isOpen \/ ~table.present \/ fails THEN [ok |-> FALSE, v |-> 0]
    ELSE [ok |-> TRUE, v |-> Len(table.rows)]

\* The numbers logged: the number of alerts, when it could be read.
printOneLineSummary(isOpen, db, f) ==
    Bind(getNumberTableRows(isOpen, db.alerts_v2, f.at = "count"), LAMBDA n :
         IF n.ok THEN <<n.v>> ELSE << >>)

\* What is logged: the numbers, and the alerts whose diagnostic is printed.
printAlertsSummary(isOpen, db, alerts, f) ==
    [numbers |-> printOneLineSummary(isOpen, db, f), alerts |-> alerts]

\* The diagnostics call goes on to empty the store.
printStats_clears(isOpen, db, level, f) ==
    [db |-> clearDatabase(isOpen, db, NoFault).db, isOpen |-> isOpen,
     numbers |-> << >>, alerts |-> << >>]

\* printStats(level): the file and the handle after the call, and what was
\* logged. The result of load is not looked at: the alerts are whatever the
\* collection holds after it.
printStats(isOpen, db, level, f) ==
    Bind(load(isOpen, db, << >>, f).out, LAMBDA alerts :
         Bind(IF level = "ONE_LINE"
              THEN printAlertsSummary(isOpen, db, << >>, f)
              ELSE printAlertsSummary(isOpen, db, alerts, f), LAMBDA p :
              [db |-> db, isOpen |-> isOpen, numbers |-> p.numbers,
               alerts |-> p.alerts]))


\* ------------------------------------------------------------- the system
VARIABLES
    file,      \* the database file at the path the repository is used with
    m_dbHandle,\* TRUE while the repository holds an open handle
    last,      \* the last call: its inputs, its return value, its outputs
    pre,       \* the file and the handle as they were before the last call
    assigned,  \* the ids successful stores wrote into their alerts, in call
               \* order, since the last clearDatabase call
    streak,    \* the same since the last erase, erase(ids) or clearDatabase
               \* call
    nops,      \* calls made so far
    nfail,     \* engine failures so far
    engineHandles, \* engine handles acquired and not yet released
    calls      \* the store call each thread is in, where threads share the
               \* repository

vars ==
    <<file, m_dbHandle, last, pre, assigned, streak, nops, nfail,
      engineHandles, calls>>

\* The threads that call store on one repository with no lock between them.
Threads == {1, 2}

\* A thread that is in no call.
Idle == [pc |-> "idle", alert |-> NoAlert, id |-> 0, ok |-> FALSE,
         overlapped |-> FALSE]

\* Largest database id an alert object passed in carries.
MaxObjId == 2

ObjIds == 0..MaxObjId

\* The alert objects a caller passes to store and modify.
AlertInputs == {Alert(t, p, id) : t \in Tokens, p \in Payloads, id \in ObjIds}

\* The alert objects a caller passes to store: these, and for each token an
\* object of a class whose getTypeName() is none of the three names.
StoreInputs ==
    AlertInputs
        \cup {[Alert(t, CHOOSE p \in Payloads : p.play = << >>, 0)
                   EXCEPT !.typeName = "?"] : t \in Tokens}

\* The alert objects a caller passes to erase (only token and id are read).
EraseInputs ==
    {Alert(t, CHOOSE p \in Payloads : p.play = << >>, id) :
        t \in Tokens, id \in ObjIds}

\* The id lists a caller passes to erase.
IdLists ==
    {<< >>} \cup {<<i>> : i \in 1..MaxObjId}
            \cup {<<i, j>> : i, j \in 1..MaxObjId}

StoreFaults ==
    {Fault(at, 0, 0) : at \in {"exists", "maxid", "insert"}}
        \cup {Fault("assets", k, 0) : k \in 0..2}
        \cup {Fault("play", k, 0) : k \in 0..3}
LoadFaults ==
    {Fault(at, 0, 0) : at \in {"loadAlerts", "loadAssets", "loadPlay"}}
        \cup {Fault(at, 1, 0) : at \in {"scanAlerts", "scanAssets", "scanPlay"}}
CreateFaults ==
    {Fault(at, 0, 0) :
        at \in {"createFile", "createAlerts", "createAssets", "createPlay"}}
OpenFaults ==
    {Fault(at, 0, 0) :
        at \in {"openFile", "createAlerts", "createAssets", "createPlay",
                "loadAlerts", "loadAssets", "loadPlay", "drop"}}
        \cup {Fault("scanAlerts", 1, 0)}
        \cup {Fault("insert", 0, n) : n \in 1..2}
        \cup {Fault("play", 1, n) : n \in 1..2}
ModifyFaults == {Fault(at, 0, 0) : at \in {"exists", "update"}}
EraseFaults ==
    {Fault(at, 0, 0) :
        at \in {"exists", "eraseAlert", "eraseAssets", "erasePlay"}}
EraseIdsFaults ==
    {Fault(at, 0, n) :
        at \in {"existsById", "eraseAlert", "eraseAssets", "erasePlay"},
        n \in 1..2}
ClearFaults ==
    {Fault(at, 0, 0) : at \in {"clearAlerts", "clearAssets", "clearPlay"}}

\* The faults a call may meet: none once the budget of failures is spent.
Faults(S) == IF nfail < MaxFailures THEN {NoFault} \cup S ELSE {NoFault}

\* A fault is an input of a call only when it changes what the call does.
Faulty(f, result, clean) == f = NoFault \/ result # clean

\* The record of a call: into is the collection passed to load, out the
\* collection after the call; for printStats, level is its argument, ids the
\* numbers it logged and out the alerts whose diagnostic it printed.
Called(op, ok, alert, after, ids, out) ==
    [op |-> op, ok |-> ok, alert |-> alert, after |-> after, ids |-> ids,
     into |-> << >>, out |-> out, level |-> ""]

\* The engine handles open after a call that acquired one, released one, or
\* both.
Handles(n, acquired, released) ==
    n + (IF acquired THEN 1 ELSE 0) - (IF released THEN 1 ELSE 0)

Step(f) ==
    /\ nops < MaxOps
    /\ nops' = nops + 1
    /\ nfail' = IF f = NoFault THEN nfail ELSE nfail + 1
    /\ pre' = [db |-> file, isOpen |-> m_dbHandle, nfail |-> nfail]
    /\ UNCHANGED calls

CreateDatabase ==
    /\ nops < MaxOps
    /\ \E clean \in {createDatabase(m_dbHandle, file, NoFault)} :
       \E f \in Faults(CreateFaults) :
       \E r \in {IF f = NoFault THEN clean
                 ELSE createDatabase(m_dbHandle, file, f)} :
        /\ Faulty(f, r, clean)
        /\ Step(f)
        /\ file' = r.db
        /\ m_dbHandle' = r.isOpen
        /\ engineHandles' = Handles(engineHandles, r.acquired, r.released)
        /\ last' = Called("createDatabase", r.ok, NoAlert, NoAlert, << >>,
                          << >>)
        /\ UNCHANGED <<assigned, streak>>

Open ==
    /\ nops < MaxOps
    /\ \E clean \in {open(m_dbHandle, file, NoFault)} :
       \E f \in Faults(OpenFaults) :
       \E r \in {IF f = NoFault THEN clean ELSE open(m_dbHandle, file, f)} :
        /\ Faulty(f, r, clean)
        /\ Step(f)
        /\ file' = r.db
        /\ m_dbHandle' = r.isOpen
        /\ engineHandles' = Handles(engineHandles, r.acquired, r.released)
        /\ last' = Called("open", r.ok, NoAlert, NoAlert, << >>, << >>)
        /\ assigned' = assigned \o r.stored
        /\ streak' = streak \o r.stored

Close ==
    /\ Step(NoFault)
    /\ \E c \in {close(m_dbHandle)} :
        /\ m_dbHandle' = c.isOpen
        /\ engineHandles' = Handles(engineHandles, FALSE, c.released)
    /\ last' = Called("close", TRUE, NoAlert, NoAlert, << >>, << >>)
    /\ UNCHANGED <<file, assigned, streak>>

Store ==
    /\ nops < MaxOps
    /\ \E alert \in StoreInputs :
       \E clean \in {store(m_dbHandle, file, alert, NoFault)} :
       \E f \in Faults(StoreFaults) :
       \E r \in {IF f = NoFault THEN clean
                 ELSE store(m_dbHandle, file, alert, f)} :
        /\ Faulty(f, r, clean)
        /\ Step(f)
        /\ file' = r.db
        /\ last' = Called("store", r.ok, alert, r.alert, << >>, << >>)
        /\ assigned' = IF r.ok THEN Append(assigned, r.alert.dbId)
                        ELSE assigned
        /\ streak' = IF r.ok THEN Append(streak, r.alert.dbId) ELSE streak
        /\ UNCHANGED <<m_dbHandle, engineHandles>>

\* The collections a caller passes to load: an empty one, and one that
\* already holds an alert.
Containers ==
    {<< >>,
     <<Alert("t2", CHOOSE p \in Payloads : p.play # << >>, MaxObjId)>>}

\* load into one of these collections, or into the one the last call was a
\* load into.
Load ==
    /\ nops < MaxOps
    /\ \E container \in
            Containers \cup (IF last.op = "load" THEN {last.out} ELSE {}) :
       \E clean \in {load(m_dbHandle, file, container, NoFault)} :
       \E f \in Faults(LoadFaults) :
       \E r \in {IF f = NoFault THEN clean
                 ELSE load(m_dbHandle, file, container, f)} :
        /\ Faulty(f, r, clean)
        /\ Step(f)
        /\ last' = [Called("load", r.ok, NoAlert, NoAlert, << >>, r.out)
                        EXCEPT !.into = container]
        /\ UNCHANGED <<file, m_dbHandle, assigned, streak, engineHandles>>

Modify ==
    /\ nops < MaxOps
    /\ \E alert \in AlertInputs :
       \E clean \in {modify(m_dbHandle, file, alert, NoFault)} :
       \E f \in Faults(ModifyFaults) :
       \E r \in {IF f = NoFault THEN clean
                 ELSE modify(m_dbHandle, file, alert, f)} :
        /\ Faulty(f, r, clean)
        /\ Step(f)
        /\ file' = r.db
        /\ last' = Called("modify", r.ok, alert, alert, << >>, << >>)
        /\ UNCHANGED <<m_dbHandle, assigned, streak, engineHandles>>

Erase ==
    /\ nops < MaxOps
    /\ \E alert \in EraseInputs :
       \E clean \in {erase(m_dbHandle, file, alert, NoFault)} :
       \E f \in Faults(EraseFaults) :
       \E r \in {IF f = NoFault THEN clean
                 ELSE erase(m_dbHandle, file, alert, f)} :
        /\ Faulty(f, r, clean)
        /\ Step(f)
        /\ file' = r.db
        /\ last' = Called("erase", r.ok, alert, alert, << >>, << >>)
        /\ streak' = << >>
        /\ UNCHANGED <<m_dbHandle, assigned, engineHandles>>

EraseIds ==
    /\ nops < MaxOps
    /\ \E ids \in IdLists :
       \E clean \in {eraseIds(m_dbHandle, file, ids, NoFault)} :
       \E f \in Faults(EraseIdsFaults) :
       \E r \in {IF f = NoFault THEN clean
                 ELSE eraseIds(m_dbHandle, file, ids, f)} :
        /\ Faulty(f, r, clean)
        /\ Step(f)
        /\ file' = r.db
        /\ last' = Called("eraseIds", r.ok, NoAlert, NoAlert, ids, << >>)
        /\ streak' = << >>
        /\ UNCHANGED <<m_dbHandle, assigned, engineHandles>>

ClearDatabase ==
    /\ nops < MaxOps
    /\ \E clean \in {clearDatabase(m_dbHandle, file, NoFault)} :
       \E f \in Faults(ClearFaults) :
       \E r \in {IF f = NoFault THEN clean
                 ELSE clearDatabase(m_dbHandle, file, f)} :
        /\ Faulty(f, r, clean)
        /\ Step(f)
        /\ file' = r.db
        /\ last' = Called("clearDatabase", r.ok, NoAlert, NoAlert, << >>,
                          << >>)
        /\ assigned' = << >>
        /\ streak' = << >>
        /\ UNCHANGED <<m_dbHandle, engineHandles>>

PrintStatsFaults == LoadFaults \cup {Fault("count", 0, 0)}

PrintStats ==
    /\ nops < MaxOps
    /\ \E level \in StatLevels :
       \E clean \in {printStats(m_dbHandle, file, level, NoFault)} :
       \E f \in Faults(PrintStatsFaults) :
       \E r \in {IF f = NoFault THEN clean
                 ELSE printStats(m_dbHandle, file, level, f)} :
        /\ Faulty(f, r, clean)
        /\ Step(f)
        /\ file' = r.db
        /\ m_dbHandle' = r.isOpen
        /\ last' = [Called("printStats", TRUE, NoAlert, NoAlert, r.numbers,
                           r.alerts) EXCEPT !.level = level]
        /\ UNCHANGED <<assigned, streak, engineHandles>>

Start(db, n) ==
    /\ file = db
    /\ m_dbHandle = FALSE
    /\ last = Called("init", TRUE, NoAlert, NoAlert, << >>, << >>)
    /\ pre = [db |-> db, isOpen |-> FALSE, nfail |-> 0]
    /\ assigned = << >>
    /\ streak = << >>
    /\ nops = n
    /\ nfail = 0
    /\ engineHandles = 0
    /\ calls = [t \in Threads |-> Idle]

\* A repository constructed for a path at which there is no file yet.
Init == Start(NoFile, 0)

\* The alerts of a V1 file: up to two, with distinct tokens, in the order
\* and with the ids the V1 store gave them (ascending, with gaps where
\* alerts were erased).
V1Alerts ==
    {<< >>}
        \cup {<<Alert("t1", p, i)>> : p \in Payloads, i \in 1..MaxV1Id}
        \cup {<<Alert("t1", p, i), Alert("t2", q, j)>> :
                 p \in Payloads, q \in Payloads,
                 i \in 1..MaxV1Id, j \in 1..MaxV1Id}

\* The V1 file that holds the alerts: the legacy alerts table, and the rows
\* of each alert's assets and play-order items under the alert's V1 id.
RECURSIVE V1File(_, _)
V1File(db, alerts) ==
    IF alerts = << >> THEN db
    ELSE LET a == Head(alerts)
             row == AlertRow(a.dbId, a, alertTypeToDbField(a.typeName).v,
                             alertStateToDbField(a.state).v)
             db1 == [db EXCEPT !.alerts = InsertRow(@, row)]
             db2 == storeAlertAssets(db1, a.dbId, a.assets, NoFault).db
             db3 == storeAlertAssetPlayOrderItems(db2, a.dbId, a.play,
                                                  NoFault).db
         IN  V1File(db3, Tail(alerts))

EmptyV1File ==
    [exists |-> TRUE, alerts |-> EmptyTable, alerts_v2 |-> NoTable,
     alertAssets |-> EmptyTable, alertAssetPlayOrderItems |-> EmptyTable]

\* A V1 file whose alerts have no assets may also lack the two child tables.
V1Files ==
    LET ok(s) == \A i, j \in DOMAIN s : i < j => s[i].dbId < s[j].dbId
        bare(s) == \A i \in DOMAIN s :
                      s[i].play = << >> /\ s[i].assets = EmptyAssets
    IN  {V1File(EmptyV1File, s) : s \in {x \in V1Alerts : ok(x)}}
          \cup {[V1File(EmptyV1File, s) EXCEPT
                    !.alertAssets = NoTable,
                    !.alertAssetPlayOrderItems = NoTable] :
                 s \in {x \in V1Alerts : ok(x) /\ bare(x)}}

\* A repository constructed for a path at which a V1 file lies; writing that
\* file counts as one call.
InitV1 == \E db \in V1Files : Start(db, 1)

Next ==
    \/ CreateDatabase
    \/ Open
    \/ Close
    \/ Store
    \/ Load
    \/ Modify
    \/ Erase
    \/ EraseIds
    \/ ClearDatabase
    \/ PrintStats

Spec == Init /\ [][Next]_vars

SpecV1 == InitV1 /\ [][Next]_vars

\* The V1 files with at most one alert, stored under id 1.
SomeV1Files ==
    {db \in V1Files :
        \A i \in DOMAIN db.alerts.rows : i = 1 /\ db.alerts.rows[i].id = 1}

\* A repository constructed for a path with no file or with one of these V1
\* files.
InitAny == Init \/ \E db \in SomeV1Files : Start(db, 1)

SpecAny == InitAny /\ [][Next]_vars

\* ----------------------------------------------------------------- codecs
\* The three conversion functions and the type branch of loadHelper, applied
\* to the values a caller or a row can hand them. Here last holds the four
\* values the conversions read and write and pre is last before the call.

\* Largest integer a row is taken to hold in its type or state column.
MaxDbField == 11

DbFields == 0..MaxDbField

\* The type names of the three kinds of alert.
AlertTypeNames == {"ALARM", "TIMER", "REMINDER"}

InitCodec ==
    /\ last \in [op : {"init"}, ok : {TRUE},
                 state : AlertStates \cup {"?"}, dbState : DbFields,
                 alertType : AlertTypeNames \cup {"?"}, dbType : DbFields]
    /\ pre = last
    /\ file = NoFile
    /\ m_dbHandle = FALSE
    /\ assigned = << >>
    /\ streak = << >>
    /\ nops = 0
    /\ nfail = 0
    /\ engineHandles = 0
    /\ calls = [t \in Threads |-> Idle]

CodecStep ==
    /\ nops < MaxOps
    /\ nops' = nops + 1
    /\ pre' = last
    /\ UNCHANGED <<file, m_dbHandle, assigned, streak, nfail, engineHandles,
                   calls>>

\* alertStateToDbField(state, &dbState)
EncodeState ==
    /\ CodecStep
    /\ \E r \in {alertStateToDbField(last.state)} :
          last' = [last EXCEPT !.op = "alertStateToDbField", !.ok = r.ok,
                               !.dbState = IF r.ok THEN r.v ELSE @]

\* dbFieldToAlertState(dbState, &state)
DecodeState ==
    /\ CodecStep
    /\ \E r \in {dbFieldToAlertState(last.dbState, last.state)} :
          last' = [last EXCEPT !.op = "dbFieldToAlertState", !.ok = r.ok,
                               !.state = r.v]

\* alertTypeToDbField(alertType, &dbType)
EncodeType ==
    /\ CodecStep
    /\ \E r \in {alertTypeToDbField(last.alertType)} :
          last' = [last EXCEPT !.op = "alertTypeToDbField", !.ok = r.ok,
                               !.dbType = IF r.ok THEN r.v ELSE @]

\* The type branch of loadHelper, which leaves no alert when the code is
\* not one of the three.
DecodeType ==
    /\ CodecStep
    /\ \E r \in {TypeNameOfCode(last.dbType)} :
          last' = [last EXCEPT !.op = "TypeNameOfCode", !.ok = (r # ""),
                               !.alertType = IF r # "" THEN r ELSE @]

NextCodec ==
    \/ EncodeState
    \/ DecodeState
    \/ EncodeType
    \/ DecodeType

SpecCodec == InitCodec /\ [][NextCodec]_vars

\* ---------------------------------------------------------- foreign rows
\* Type and state codes no alert is stored with.
ForeignCodes ==
    {[type |-> 0, state |-> ALERT_STATE_SET],
     [type |-> ALERT_EVENT_TYPE_REMINDER + 1, state |-> ALERT_STATE_SET],
     [type |-> ALERT_EVENT_TYPE_ALARM, state |-> 0],
     [type |-> ALERT_EVENT_TYPE_ALARM, state |-> MaxDbField]}

\* A V2 file that this repository did not write all of: alerts_v2 holds a
\* row with such a code under token t2, alone or after the row of an alarm
\* stored under token t1.
ForeignFiles ==
    LET alarm == CHOOSE p \in Payloads : p.play = << >>
        base == [NoFile EXCEPT !.exists = TRUE, !.alerts_v2 = EmptyTable,
                               !.alertAssets = EmptyTable,
                               !.alertAssetPlayOrderItems = EmptyTable]
        own == store(TRUE, base, Alert("t1", alarm, 0), NoFault).db
        row(db, c) == AlertRow(MaxIdOf(db.alerts_v2.rows) + 1,
                               Alert("t2", alarm, 0), c.type, c.state)
    IN  {[db EXCEPT !.alerts_v2 = InsertRow(@, row(db, c))] :
            db \in {base, own}, c \in ForeignCodes}

InitForeign == \E db \in ForeignFiles : Start(db, 1)

SpecForeign == InitForeign /\ [][Next]_vars

\* ------------------------------------------------- store from two threads
\* store takes no lock: between two of its statements another thread's store
\* may run its own. One step per statement group of store: the checks up to
\* alertExists, the read of the largest id, the INSERT of the parent row,
\* the inserts of the assets, the inserts of the play-order items.

\* The alert objects the threads pass to store.
RaceInputs == {Alert(t, p, 0) : t \in Tokens, p \in Payloads}

InCall(c) == c.pc \notin {"idle", "done"}

Returned(c, ok) == [c EXCEPT !.pc = "done", !.ok = ok]

\* Lines 622-635: the handle check and alertExists, for a thread that is in
\* no call. A call that starts while the other thread is in one overlaps it.
StoreCheck(t) ==
    /\ ~InCall(calls[t])
    /\ nops < MaxOps
    /\ \E alert \in RaceInputs :
       \E u \in Threads \ {t} :
       \E f \in Faults({Fault("exists", 0, 0)}) :
       \E exists \in {alertExists(file, alert.token, f.at = "exists")} :
        /\ Faulty(f, exists, alertExists(file, alert.token, FALSE))
        /\ nops' = nops + 1
        /\ nfail' = IF f = NoFault THEN nfail ELSE nfail + 1
        /\ pre' = [db |-> file, isOpen |-> m_dbHandle, nfail |-> nfail]
        /\ calls' =
              [calls EXCEPT
                 ![t] = [pc |-> IF m_dbHandle /\ ~exists THEN "maxid"
                                ELSE "done",
                         alert |-> alert, id |-> 0, ok |-> FALSE,
                         overlapped |-> InCall(calls[u])],
                 ![u] = [@ EXCEPT !.overlapped = @ \/ InCall(calls[u])]]
        /\ UNCHANGED <<file, m_dbHandle, last, assigned, streak,
                       engineHandles>>

\* Lines 646-664: the largest id of alerts_v2 plus one, and the two codecs.
StoreMaxId(t) ==
    /\ calls[t].pc = "maxid"
    /\ \E max \in {GenerateAlertId(file, NoFault)} :
          calls' =
            [calls EXCEPT
               ![t] = IF max.ok /\ alertTypeToDbField(@.alert.typeName).ok
                         /\ alertStateToDbField(@.alert.state).ok
                      THEN [@ EXCEPT !.pc = "insert", !.id = max.v]
                      ELSE Returned(@, FALSE)]
    /\ UNCHANGED <<file, m_dbHandle, last, pre, assigned, streak, nops, nfail,
                   engineHandles>>

\* Lines 666-696: the INSERT, which the primary key rejects when a row has
\* the id, and the id written into the alert object.
StoreInsert(t) ==
    /\ calls[t].pc = "insert"
    /\ \E c \in {calls[t]} :
          IF alertExistsByAlertId(file, c.id, FALSE)
          THEN /\ calls' = [calls EXCEPT ![t] = Returned(c, FALSE)]
               /\ file' = file
          ELSE /\ calls' = [calls EXCEPT ![t] =
                               [c EXCEPT !.pc = "assets",
                                         !.alert.dbId = c.id]]
               /\ file' = [file EXCEPT !.alerts_v2 =
                             InsertRow(@, AlertRow(c.id, c.alert,
                                 alertTypeToDbField(c.alert.typeName).v,
                                 alertStateToDbField(c.alert.state).v))]
    /\ UNCHANGED <<m_dbHandle, last, pre, assigned, streak, nops, nfail,
                   engineHandles>>

\* Lines 700-703.
StoreAssets(t) ==
    /\ calls[t].pc = "assets"
    /\ \E c \in {calls[t]} :
       \E r \in {storeAlertAssets(file, c.id, c.alert.assets, NoFault)} :
        /\ file' = r.db
        /\ calls' = [calls EXCEPT ![t] = IF r.ok THEN [c EXCEPT !.pc = "play"]
                                         ELSE Returned(c, FALSE)]
    /\ UNCHANGED <<m_dbHandle, last, pre, assigned, streak, nops, nfail,
                   engineHandles>>

\* Lines 705-710: the play-order items, and the return.
StorePlay(t) ==
    /\ calls[t].pc = "play"
    /\ \E c \in {calls[t]} :
       \E r \in {storeAlertAssetPlayOrderItems(file, c.id, c.alert.play,
                                               NoFault)} :
        /\ file' = r.db
        /\ calls' = [calls EXCEPT ![t] = Returned(c, r.ok)]
        /\ last' = Called("store", r.ok, [c.alert EXCEPT !.dbId = 0],
                          c.alert, << >>, << >>)
    /\ UNCHANGED <<m_dbHandle, pre, assigned, streak, nops, nfail,
                   engineHandles>>

NextRace ==
    \/ CreateDatabase
    \/ \E t \in Threads : StoreCheck(t)
    \/ \E t \in Threads : StoreMaxId(t)
    \/ \E t \in Threads : StoreInsert(t)
    \/ \E t \in Threads : StoreAssets(t)
    \/ \E t \in Threads : StorePlay(t)

SpecRace == Init /\ [][NextRace]_vars

\* ================================================================ claims
\* What load returns into an empty collection on an open handle when no
\* statement fails.
Loaded(db) == load(TRUE, db, << >>, NoFault)

\* The alert object is the one alerts_v2 holds: a row has its id and token.
Stored(db, alert) ==
    \E i \in DOMAIN db.alerts_v2.rows :
        /\ db.alerts_v2.rows[i].id = alert.dbId
        /\ db.alerts_v2.rows[i].token = alert.token

SameContents(x, a) ==
    /\ x.token = a.token
    /\ x.typeName = a.typeName
    /\ x.state = a.state
    /\ x.iso = a.iso
    /\ x.loopCount = a.loopCount
    /\ x.loopPause = a.loopPause
    /\ x.bg = a.bg
    /\ x.assets = a.assets
    /\ x.play = a.play

\* The assets and the play-order list load attaches to the alert with this id.
ChildrenOf(db, id) ==
    Attach([NoAlert EXCEPT !.dbId = id], loadAlertAssets(db, NoFault).map,
           loadAlertAssetPlayOrderItems(db, NoFault).map)

\* C1. Round-trip: when no engine failure has occurred, after a successful
\* store(A) a load into an empty collection succeeds and returns an alert
\* with A's token, and every alert it returns with that token has A's kind,
\* state, ISO time, loop count, loop pause, background asset, asset catalog
\* and play-order list.
C1_RoundTrip ==
    (last.op = "store" /\ last.ok /\ nfail = 0) =>
        \E l \in {Loaded(file)} :
            /\ l.ok
            /\ \E i \in DOMAIN l.out : l.out[i].token = last.alert.token
            /\ \A i \in DOMAIN l.out :
                  l.out[i].token = last.alert.token =>
                      SameContents(l.out[i], last.alert)

\* C2. Token collision: a store of an alert whose token is already in
\* alerts_v2 returns failure, leaves the file as it was and does not write
\* the alert object.
C2_TokenCollision ==
    (last.op = "store" /\ pre.isOpen
        /\ alertExists(pre.db, last.alert.token, FALSE)) =>
        /\ ~last.ok
        /\ file = pre.db
        /\ last.after = last.alert

\* C3. Token uniqueness: no two rows of alerts_v2 have the same token.
C3_TokenUnique ==
    \A i, j \in DOMAIN file.alerts_v2.rows :
        i # j => file.alerts_v2.rows[i].token # file.alerts_v2.rows[j].token

C5_NoIdReuse ==
    \A i, j \in DOMAIN assigned : i # j => assigned[i] # assigned[j]

\* C5 amended. Without clearDatabase, a successful store assigns an id an
\* earlier successful store assigned exactly when that id is one more than
\* the largest id left in alerts_v2, so only when no row with that id or a
\* larger id is left.
C5_ReuseOnlyAboveRemaining ==
    (last.op = "store" /\ last.ok) =>
        \A k \in 1..(Len(assigned) - 1) :
            /\ (assigned[k] = last.after.dbId) <=>
                  (assigned[k] = MaxIdOf(pre.db.alerts_v2.rows) + 1)
            /\ (assigned[k] = last.after.dbId) =>
                  \A i \in DOMAIN pre.db.alerts_v2.rows :
                      pre.db.alerts_v2.rows[i].id < assigned[k]

C5_Witness ==
    /\ last.op = "store"
    /\ last.ok
    /\ \E k \in 1..(Len(assigned) - 1) : assigned[k] = last.after.dbId
    /\ \A i \in DOMAIN file.alerts_v2.rows :
          file.alerts_v2.rows[i].id = last.after.dbId =>
              file.alerts_v2.rows[i].token = last.alert.token

\* C6. Erase completeness: after a successful erase of a stored alert no
\* row of alerts_v2 has its id, no child row has it as alert_id, a load
\* returns no alert with its token, and the rows of the other alerts are as
\* before.
C6_EraseComplete ==
    (last.op = "erase" /\ last.ok /\ Stored(pre.db, last.alert)) =>
        /\ file.alerts_v2.rows =
              SelectSeq(pre.db.alerts_v2.rows,
                        LAMBDA r : r.id # last.alert.dbId)
        /\ file.alertAssets.rows =
              SelectSeq(pre.db.alertAssets.rows,
                        LAMBDA r : r.alert_id # last.alert.dbId)
        /\ file.alertAssetPlayOrderItems.rows =
              SelectSeq(pre.db.alertAssetPlayOrderItems.rows,
                        LAMBDA r : r.alert_id # last.alert.dbId)
        /\ \E l \in {Loaded(file)} :
              /\ l.ok
              /\ \A i \in DOMAIN l.out : l.out[i].token # last.alert.token

\* C7. Modify scope: a successful modify of a stored alert leaves the child
\* tables as they were, changes no row of alerts_v2 but the alert's own, and
\* in that row nothing but state and the two scheduled times; a reload shows
\* the same alerts with the same contents but for that alert's state and
\* scheduled time.
C7_ModifyScope ==
    (last.op = "modify" /\ last.ok /\ Stored(pre.db, last.alert)) =>
        /\ file.alertAssets = pre.db.alertAssets
        /\ file.alertAssetPlayOrderItems = pre.db.alertAssetPlayOrderItems
        /\ file.alerts = pre.db.alerts
        /\ Len(file.alerts_v2.rows) = Len(pre.db.alerts_v2.rows)
        /\ \A i \in DOMAIN file.alerts_v2.rows :
              \E old \in {pre.db.alerts_v2.rows[i]},
                 new \in {file.alerts_v2.rows[i]} :
                  IF old.id = last.alert.dbId
                  THEN new = [old EXCEPT !.state = new.state,
                                         !.unix = new.unix, !.iso = new.iso]
                  ELSE new = old
        /\ \E l0 \in {Loaded(pre.db)}, l1 \in {Loaded(file)} :
              /\ l0.ok = l1.ok
              /\ Len(l0.out) = Len(l1.out)
              /\ \A i \in DOMAIN l1.out :
                    IF l0.out[i].dbId = last.alert.dbId
                    THEN l1.out[i] =
                            [l0.out[i] EXCEPT !.state = l1.out[i].state,
                                              !.unix = l1.out[i].unix,
                                              !.iso = l1.out[i].iso]
                    ELSE l1.out[i] = l0.out[i]

C7_Witness ==
    /\ last.op = "modify"
    /\ last.ok
    /\ Stored(pre.db, last.alert)
    /\ file # pre.db
    /\ Len(file.alerts_v2.rows) = 2
    /\ \E i \in DOMAIN file.alertAssetPlayOrderItems.rows :
          file.alertAssetPlayOrderItems.rows[i].alert_id = last.alert.dbId

\* C8. Migration result: a successful open, with no engine failure, of a
\* file with the legacy alerts table and no alerts_v2 leaves no alerts
\* table and an alerts_v2 with one row per legacy row, with the same token,
\* type, state, scheduled time, loop count and loop pause, and a load gives
\* each alert the assets and the play-order list it had under its V1 id.
C8_MigrationResult ==
    (last.op = "open" /\ last.ok /\ nfail = 0
        /\ pre.db.alerts.present /\ ~pre.db.alerts_v2.present) =>
        /\ file.alerts_v2.present
        /\ ~file.alerts.present
        /\ Len(file.alerts_v2.rows) = Len(pre.db.alerts.rows)
        /\ \A i \in DOMAIN pre.db.alerts.rows :
              \E old \in {pre.db.alerts.rows[i]} :
              \E j \in DOMAIN file.alerts_v2.rows :
              \E new \in {file.alerts_v2.rows[j]} :
                  /\ new = [old EXCEPT !.id = new.id]
                  /\ \E was \in {ChildrenOf(pre.db, old.id)},
                        is \in {ChildrenOf(file, new.id)} :
                        /\ is.assets = was.assets
                        /\ is.play = was.play

\* C9. Interrupted migration, legacy table: a successful open of a file that
\* holds both alerts_v2 and the legacy alerts table drops the alerts table.
C9_LegacyDropped ==
    (last.op = "open" /\ last.ok
        /\ pre.db.alerts.present /\ pre.db.alerts_v2.present) =>
        ~file.alerts.present

\* C10. Crash-safe migration: after a successful open of a file an
\* interrupted migration left with both alerts_v2 and a legacy alerts table
\* that holds at least one alert, a load that succeeds returns every alert
\* of the legacy table exactly once and no other alert.
C10_NoAlertLost ==
    (last.op = "open" /\ last.ok /\ pre.db.alerts.rows # << >>
        /\ pre.db.alerts.present /\ pre.db.alerts_v2.present) =>
        \E l \in {Loaded(file)} :
            l.ok =>
                /\ Len(l.out) = Len(pre.db.alerts.rows)
                /\ \A i \in DOMAIN pre.db.alerts.rows :
                      Cardinality({j \in DOMAIN l.out :
                          l.out[j].token = pre.db.alerts.rows[i].token}) = 1

\* C11. Clear and reuse: after a successful clearDatabase on an open store
\* the three tables exist and are empty, a load succeeds and returns an
\* empty collection, and a store called next, if no statement of it fails,
\* succeeds and assigns id 1.
C11_ClearAndReuse ==
    (last.op = "clearDatabase" /\ last.ok /\ pre.isOpen) =>
        /\ file.alerts_v2 = EmptyTable
        /\ file.alertAssets = EmptyTable
        /\ file.alertAssetPlayOrderItems = EmptyTable
        /\ Loaded(file) = [ok |-> TRUE, out |-> << >>]
        /\ \A alert \in AlertInputs :
              \E s \in {store(m_dbHandle, file, alert, NoFault)} :
                  s.ok /\ s.alert.dbId = 1

C11_Witness ==
    /\ last.op = "clearDatabase"
    /\ last.ok
    /\ pre.isOpen
    /\ Len(pre.db.alerts_v2.rows) = 2
    /\ pre.db.alertAssets.rows # << >>
    /\ pre.db.alertAssetPlayOrderItems.rows # << >>

\* No statement of the last call failed.
NoFailureInCall == nfail = pre.nfail

\* The file has the three tables of the V2 schema.
HasSchema(db) ==
    /\ db.alerts_v2.present
    /\ db.alertAssets.present
    /\ db.alertAssetPlayOrderItems.present

\* The file without the rows of the alerts with these ids, in all three
\* tables.
Without(db, ids) ==
    [db EXCEPT
        !.alerts_v2.rows = SelectSeq(@, LAMBDA r : r.id \notin ids),
        !.alertAssets.rows = SelectSeq(@, LAMBDA r : r.alert_id \notin ids),
        !.alertAssetPlayOrderItems.rows =
            SelectSeq(@, LAMBDA r : r.alert_id \notin ids)]

\* The positions of an id list whose id has no row in alerts_v2 when the
\* loop of erase(ids) reaches it: no row at the start of the call, or listed
\* at an earlier position.
MissingWhenReached(db, ids) ==
    {k \in DOMAIN ids :
        \/ ~alertExistsByAlertId(db, ids[k], FALSE)
        \/ \E j \in 1..(k - 1) : ids[j] = ids[k]}

\* C12 as stated: erase(ids) on an open store with all three tables and no
\* engine failure returns success, with all listed alerts gone from all
\* three tables, when every listed id has a row at the start of the call.
C12_SucceedsWhenAllExist ==
    (last.op = "eraseIds" /\ pre.isOpen /\ NoFailureInCall
        /\ HasSchema(pre.db)
        /\ \A k \in DOMAIN last.ids :
              alertExistsByAlertId(pre.db, last.ids[k], FALSE)) =>
        /\ last.ok
        /\ file = Without(pre.db, {last.ids[k] : k \in DOMAIN last.ids})

\* C12 amended. erase(ids) on an open store with all three tables and no
\* engine failure takes the ids in list order; it returns failure at the
\* first id that has no row when it is reached, because it had none at the
\* start or because it is listed a second time, with exactly the ids before
\* it deleted from all three tables; it returns success, with all listed
\* ids deleted, when every listed id has a row at the start and none is
\* listed twice.
C12_BatchErase ==
    (last.op = "eraseIds" /\ pre.isOpen /\ NoFailureInCall
        /\ HasSchema(pre.db)) =>
        \E missing \in {MissingWhenReached(pre.db, last.ids)} :
        \E done \in {IF missing = {} THEN Len(last.ids)
                     ELSE (CHOOSE k \in missing :
                              \A j \in missing : k <= j) - 1} :
            /\ last.ok = (missing = {})
            /\ file = Without(pre.db, {last.ids[k] : k \in 1..done})

C12_Witness ==
    /\ last.op = "eraseIds"
    /\ pre.isOpen
    /\ NoFailureInCall
    /\ HasSchema(pre.db)
    /\ ~last.ok
    /\ Len(last.ids) = 2
    /\ ~alertExistsByAlertId(file, last.ids[1], FALSE)
    /\ alertExistsByAlertId(pre.db, last.ids[1], FALSE)
    /\ pre.db.alertAssets.rows # file.alertAssets.rows

\* C13. Orphans are inert: when an erase has deleted the parent row of an
\* alert and then failed on a child DELETE, leaving child rows under the
\* alert's id, a following store that succeeds gives its alert, on load, the
\* asset catalog and the play-order list it was stored with, and nothing of
\* the rows left behind.
C13_OrphansInert ==
    (last.op = "erase" /\ ~last.ok
        /\ alertExistsByAlertId(pre.db, last.alert.dbId, FALSE)
        /\ ~alertExistsByAlertId(file, last.alert.dbId, FALSE)
        /\ \E was \in {ChildrenOf(file, last.alert.dbId)} :
              was.assets # EmptyAssets \/ was.play # << >>) =>
        \A alert \in AlertInputs :
            \E s \in {store(m_dbHandle, file, alert, NoFault)} :
                s.ok =>
                    \E l \in {Loaded(s.db)} :
                        /\ l.ok
                        /\ \A i \in DOMAIN l.out :
                              l.out[i].dbId = s.alert.dbId =>
                                  /\ l.out[i].assets = alert.assets
                                  /\ l.out[i].play = alert.play

\* C14. Partial-insert recovery: when store(A) has returned failure after
\* inserting the parent row, erase of the same alert object, with no engine
\* failure, returns success and removes the parent row and every child row
\* written for it, and a following store of the object, with no engine
\* failure, returns success, after which load returns A, once, with its
\* asset catalog and play-order list.
C14_PartialInsertRecovery ==
    (last.op = "store" /\ ~last.ok /\ pre.isOpen
        /\ ~alertExistsByAlertId(pre.db, last.after.dbId, FALSE)
        /\ Stored(file, last.after)) =>
        \E e \in {erase(m_dbHandle, file, last.after, NoFault)} :
            /\ e.ok
            /\ e.db = Without(file, {last.after.dbId})
            /\ \E s \in {store(m_dbHandle, e.db, last.after, NoFault)} :
                  /\ s.ok
                  /\ \E l \in {Loaded(s.db)} :
                        /\ l.ok
                        /\ Cardinality({i \in DOMAIN l.out :
                              l.out[i].token = last.alert.token}) = 1
                        /\ \A i \in DOMAIN l.out :
                              l.out[i].token = last.alert.token =>
                                  SameContents(l.out[i], last.alert)

\* C15. Closed-handle precondition: a store, modify, erase(alert),
\* erase(ids), load or clearDatabase called while no handle is open returns
\* failure and leaves the file, the alert object and the collection passed
\* in as they were.
C15_ClosedHandle ==
    (last.op \in {"store", "modify", "erase", "eraseIds", "load",
                  "clearDatabase"} /\ ~pre.isOpen) =>
        /\ ~last.ok
        /\ file = pre.db
        /\ last.after = last.alert
        /\ last.out = last.into
        /\ ~m_dbHandle

C15_Witness ==
    /\ last.op = "modify"
    /\ ~pre.isOpen
    /\ Stored(pre.db, last.alert)
    /\ modify(TRUE, pre.db, last.alert, NoFault).ok
    /\ modify(TRUE, pre.db, last.alert, NoFault).db # pre.db

\* C16. Open/create preconditions: createDatabase and open called while a
\* handle is open return failure and leave the handle bound, the one engine
\* handle open and the file as it was; with no handle open, createDatabase
\* when the file exists and open when the file is missing return failure,
\* leave the file as it was and leave the repository closed.
C16_OpenCreatePreconditions ==
    /\ (last.op \in {"createDatabase", "open"} /\ pre.isOpen) =>
          /\ ~last.ok
          /\ m_dbHandle
          /\ engineHandles = 1
          /\ file = pre.db
    /\ (last.op = "createDatabase" /\ ~pre.isOpen /\ pre.db.exists) =>
          /\ ~last.ok
          /\ ~m_dbHandle
          /\ engineHandles = 0
          /\ file = pre.db
    /\ (last.op = "open" /\ ~pre.isOpen /\ ~pre.db.exists) =>
          /\ ~last.ok
          /\ ~m_dbHandle
          /\ engineHandles = 0
          /\ file = NoFile

C16_Witness ==
    /\ last.op = "open"
    /\ pre.isOpen
    /\ pre.db.alerts_v2.rows # << >>
    /\ ~last.ok

\* C17. Failed create/open releases the handle: after a createDatabase or
\* an open that was called with no handle open and failed, at a table
\* creation, in the migration or earlier, the repository is closed and no
\* engine handle is left open, and a createDatabase or open called next is
\* not rejected as already open: it goes on to acquire a handle.
C17_FailureReleasesHandle ==
    (last.op \in {"createDatabase", "open"} /\ ~pre.isOpen /\ ~last.ok) =>
        /\ ~m_dbHandle
        /\ engineHandles = 0
        /\ file.exists => open(m_dbHandle, file, NoFault).acquired
        /\ ~file.exists => createDatabase(m_dbHandle, file, NoFault).acquired

C17_Witness ==
    /\ last.op = "open"
    /\ ~pre.isOpen
    /\ ~last.ok
    /\ pre.db.exists
    /\ file.alerts_v2.rows # << >>
    /\ file.alerts.present

\* C18. Handle lifecycle: the repository is open after a successful
\* createDatabase or open, closed after a close, and as it was after every
\* other call; exactly one engine handle is open while it is open and none
\* while it is closed, so no close releases a handle twice; close leaves the
\* file as it was, a close on a closed repository changes nothing, and an
\* open after a close succeeds and loads what was loaded before the close.
C18_HandleLifecycle ==
    /\ engineHandles = (IF m_dbHandle THEN 1 ELSE 0)
    /\ (last.op \in {"createDatabase", "open"} /\ last.ok) => m_dbHandle
    /\ last.op = "close" => ~m_dbHandle /\ file = pre.db
    /\ (last.op \notin {"createDatabase", "open", "close"}
           \/ (last.op \in {"createDatabase", "open"} /\ ~last.ok)) =>
          m_dbHandle = pre.isOpen
    /\ (last.op = "close" /\ pre.isOpen) =>
          \E o \in {open(m_dbHandle, file, NoFault)} :
              /\ o.ok
              /\ o.db = pre.db
              /\ Loaded(o.db) = Loaded(pre.db)

C18_Witness ==
    /\ last.op = "close"
    /\ ~pre.isOpen
    /\ pre.db.alerts_v2.rows # << >>
    /\ engineHandles = 0

\* C19. Migration no-op: an open, with no handle open, of a file that has
\* the alerts_v2 table leaves the file as it was, and succeeds when no
\* statement fails; an open in which no statement fails of a file that has
\* neither alerts_v2 nor alerts succeeds, creates the tables that are
\* missing and nothing else, and leaves a store from which load returns no
\* alert.
C19_MigrationNoOp ==
    /\ (last.op = "open" /\ ~pre.isOpen /\ pre.db.exists
           /\ pre.db.alerts_v2.present) =>
          /\ file = pre.db
          /\ NoFailureInCall => last.ok
    /\ (last.op = "open" /\ ~pre.isOpen /\ pre.db.exists
           /\ ~pre.db.alerts_v2.present /\ ~pre.db.alerts.present
           /\ NoFailureInCall) =>
          /\ last.ok
          /\ file = [pre.db EXCEPT
                        !.alerts_v2 = EmptyTable,
                        !.alertAssets = IF @.present THEN @ ELSE EmptyTable,
                        !.alertAssetPlayOrderItems =
                            IF @.present THEN @ ELSE EmptyTable]
          /\ Loaded(file) = [ok |-> TRUE, out |-> << >>]

C19_Witness ==
    /\ last.op = "open"
    /\ ~pre.isOpen
    /\ last.ok
    /\ pre.db.alerts_v2.rows # << >>
    /\ pre.db.alertAssets.rows # << >>

\* C20. Integrity failures on modify and erase: on an open store, a modify
\* or an erase of an alert whose token has no row in alerts_v2 returns
\* failure and leaves the file and the alert object as they were, whatever
\* id the object carries.
C20_IntegrityFailures ==
    (last.op \in {"modify", "erase"} /\ pre.isOpen
        /\ ~alertExists(pre.db, last.alert.token, FALSE)) =>
        /\ ~last.ok
        /\ file = pre.db
        /\ last.after = last.alert

C20_Witness ==
    /\ last.op = "erase"
    /\ pre.isOpen
    /\ ~alertExists(pre.db, last.alert.token, FALSE)
    /\ alertExistsByAlertId(pre.db, last.alert.dbId, FALSE)
    /\ ChildrenOf(pre.db, last.alert.dbId).play # << >>

\* The rows of a table in another order: the p[i]-th row comes i-th.
Reordered(rows, p) == [i \in 1..Len(rows) |-> rows[p[i]]]

\* Orders in which the engine may return n rows: the stored order, the
\* reverse order, and every exchange of two rows.
RowOrders(n) ==
    {[i \in 1..n |-> n + 1 - i]}
        \cup {[i \in 1..n |-> IF i = a THEN b ELSE IF i = b THEN a ELSE i] :
                  a \in 1..n, b \in 1..n}

\* Play-order rows in ascending asset_play_order_position (rows with the
\* same position in the order in which they come).
RECURSIVE SortByPosition(_)
SortByPosition(rows) ==
    IF rows = << >> THEN << >>
    ELSE LET x == Head(rows)
             rest == SortByPosition(Tail(rows))
             le == SelectSeq(rest, LAMBDA r :
                      r.asset_play_order_position
                          < x.asset_play_order_position)
             gt == SelectSeq(rest, LAMBDA r :
                      r.asset_play_order_position
                          >= x.asset_play_order_position)
         IN  le \o <<x>> \o gt

\* The play-order tokens of the rows of one alert, by ascending position.
PlayOrderOf(db, id) ==
    LET rows == SortByPosition(SelectSeq(db.alertAssetPlayOrderItems.rows,
                                         LAMBDA r : r.alert_id = id))
    IN  [i \in 1..Len(rows) |-> rows[i].asset_play_order_token]

StateCodes ==
    [UNSET |-> 1, SET |-> 2, ACTIVATING |-> 3, ACTIVE |-> 4, SNOOZING |-> 5,
     SNOOZED |-> 6, STOPPING |-> 7, STOPPED |-> 8, COMPLETED |-> 9,
     READY |-> 10]

KindCodes == [ALARM |-> 1, TIMER |-> 2, REMINDER |-> 3]

\* C22. Codec mapping: encoding a state gives the code UNSET=1, SET=2,
\* ACTIVATING=3, ACTIVE=4, SNOOZING=5, SNOOZED=6, STOPPING=7, STOPPED=8,
\* COMPLETED=9, READY=10, encoding a kind gives ALARM=1, TIMER=2,
\* REMINDER=3, and each decoding gives back the state or kind of the code;
\* decoding the code a state was encoded to gives that state, and encoding
\* the state a code in 1..10 was decoded to gives that code.
C22_CodecMapping ==
    /\ (last.op = "alertStateToDbField" /\ pre.state \in AlertStates)
          => last.ok /\ last.dbState = StateCodes[pre.state]
    /\ (last.op = "alertTypeToDbField" /\ pre.alertType \in AlertTypeNames)
          => last.ok /\ last.dbType = KindCodes[pre.alertType]
    /\ (last.op = "dbFieldToAlertState" /\ pre.dbState \in 1..10)
          => last.ok /\ StateCodes[last.state] = pre.dbState
    /\ (last.op = "TypeNameOfCode" /\ pre.dbType \in 1..3)
          => last.ok /\ KindCodes[last.alertType] = pre.dbType
    /\ (last.op = "dbFieldToAlertState" /\ pre.op = "alertStateToDbField"
            /\ pre.ok)
          => last.ok /\ last.state = pre.state
    /\ (last.op = "alertStateToDbField" /\ pre.op = "dbFieldToAlertState"
            /\ pre.dbState \in 1..10)
          => last.ok /\ last.dbState = pre.dbState
    /\ \A s, t \in AlertStates :
          alertStateToDbField(s).v = alertStateToDbField(t).v => s = t

\* READY, the state whose code is not its place in the declaration, has been
\* decoded from its code and encoded again.
C22_Witness ==
    /\ last.op = "alertStateToDbField"
    /\ pre.op = "dbFieldToAlertState"
    /\ pre.dbState = ALERT_STATE_READY
    /\ last.ok
    /\ last.state = "READY"

\* alerts_v2 holds a row whose type code is not one of the three kinds or
\* whose state code is not one of the ten states.
HasForeignRow(db) ==
    \E i \in DOMAIN db.alerts_v2.rows :
        \/ db.alerts_v2.rows[i].type \notin 1..3
        \/ db.alerts_v2.rows[i].state \notin 1..10

\* C23. Codec failure is never defaulted: store of an alert whose type name
\* is none of ALARM, TIMER, REMINDER returns failure and leaves every table
\* as it was; load over an alerts_v2 holding a row whose type code is
\* outside 1..3 or whose state code is outside 1..10 returns failure, and
\* every alert it leaves in the collection has the kind and the state of the
\* codes of its row.
C23_CodecFailure ==
    /\ (last.op = "store" /\ last.alert.typeName \notin AlertTypeNames)
          => ~last.ok /\ file = pre.db
    /\ \A a \in StoreInputs :
          a.typeName \notin AlertTypeNames
              => \E r \in {store(m_dbHandle, file, a, NoFault)} :
                    ~r.ok /\ r.db = file
    /\ (last.op = "load" /\ HasForeignRow(pre.db)) => ~last.ok
    /\ last.op = "load"
          => \A i \in DOMAIN last.out :
                i > Len(last.into)
                    => \E j \in DOMAIN pre.db.alerts_v2.rows :
                         \E row \in {pre.db.alerts_v2.rows[j]} :
                          /\ row.id = last.out[i].dbId
                          /\ row.type \in 1..3
                          /\ row.state \in 1..10
                          /\ KindCodes[last.out[i].typeName] = row.type
                          /\ StateCodes[last.out[i].state] = row.state
    /\ HasForeignRow(file) => ~Loaded(file).ok

\* C24. Diagnostics is read-only: printStats at any of the three levels
\* leaves the rows of all tables of the file and the open or closed state
\* of the handle as they were before the call.
C24_PrintStatsReadOnly ==
    last.op = "printStats" => file = pre.db /\ m_dbHandle = pre.isOpen

\* printStats at the level EVERYTHING on an open store has printed an alert
\* that has assets and a play-order list, and logged one as the number of
\* alerts.
C24_Witness ==
    /\ last.op = "printStats"
    /\ last.level = "EVERYTHING"
    /\ pre.isOpen
    /\ last.ids = <<1>>
    /\ Len(last.out) = 1
    /\ last.out[1].play # << >>
    /\ file.alertAssets.rows # << >>

\* The rows a call appended to a table.
Appended(before, after) ==
    SubSeq(after.rows, Len(before.rows) + 1, Len(after.rows))

\* C25. Play-order positions: a store that succeeds has appended one row
\* per entry of the alert's play-order list, the i-th with position i and
\* the i-th token, under the id of the alert; and in every reachable state,
\* also after calls an engine failure aborted, no two rows of
\* alertAssetPlayOrderItems have the same alert_id and the same
\* asset_play_order_position.
C25_PlayOrderPositions ==
    /\ (last.op = "store" /\ last.ok)
          => \E new \in {Appended(pre.db.alertAssetPlayOrderItems,
                                  file.alertAssetPlayOrderItems)} :
                /\ Len(new) = Len(last.alert.play)
                /\ \A i \in DOMAIN new :
                      /\ new[i].alert_id = last.after.dbId
                      /\ new[i].asset_play_order_position = i
                      /\ new[i].asset_play_order_token = last.alert.play[i]
    /\ \A i, j \in DOMAIN file.alertAssetPlayOrderItems.rows :
          \E x \in {file.alertAssetPlayOrderItems.rows[i]} :
          \E y \in {file.alertAssetPlayOrderItems.rows[j]} :
             (x.alert_id = y.alert_id
                 /\ x.asset_play_order_position = y.asset_play_order_position)
                => i = j

\* The rows a call appended have the ids max+1, max+2, ... of the table.
IdsFollow(before, after) ==
    \E new \in {Appended(before, after)} :
        \A i \in DOMAIN new : new[i].id = MaxIdOf(before.rows) + i

UniqueIds(table) ==
    \A i, j \in DOMAIN table.rows :
        table.rows[i].id = table.rows[j].id => i = j

\* C26. Row ids: the rows a store call inserts in a table, whether it
\* succeeds or an engine failure aborts it, get the ids (largest id in the
\* table before the call) + 1, + 2, ... in the order of insertion, so each
\* gets the largest id before its insert plus one and the rows of one call
\* are consecutive; and in every reachable state no two rows of the same
\* table have the same id.
C26_RowIds ==
    /\ last.op = "store"
          => /\ IdsFollow(pre.db.alerts_v2, file.alerts_v2)
             /\ IdsFollow(pre.db.alertAssets, file.alertAssets)
             /\ IdsFollow(pre.db.alertAssetPlayOrderItems,
                          file.alertAssetPlayOrderItems)
    /\ UniqueIds(file.alerts_v2)
    /\ UniqueIds(file.alertAssets)
    /\ UniqueIds(file.alertAssetPlayOrderItems)

\* A store has succeeded that appended rows to all three tables, none of
\* which was empty before.
C26_Witness ==
    /\ last.op = "store"
    /\ last.ok
    /\ pre.db.alerts_v2.rows # << >>
    /\ pre.db.alertAssets.rows # << >>
    /\ pre.db.alertAssetPlayOrderItems.rows # << >>
    /\ Len(Appended(pre.db.alertAssets, file.alertAssets)) = 2
    /\ Len(Appended(pre.db.alertAssetPlayOrderItems,
                    file.alertAssetPlayOrderItems)) = 3

\* The alerts of a file with their children, as a load with no failing
\* statement attaches them: those of alerts_v2, or of the legacy table of a
\* file that has no alerts_v2.
AlertsOf(db) ==
    loadHelper(TRUE, db,
               IF db.alerts_v2.present THEN ALERTS_DATABASE_VERSION_TWO
               ELSE ALERTS_DATABASE_VERSION_ONE, << >>, NoFault).out

\* Every row of the child table belongs to a row of alerts_v2.
HasParent(db, table) ==
    \A i \in DOMAIN table.rows :
        \E j \in DOMAIN db.alerts_v2.rows :
            db.alerts_v2.rows[j].id = table.rows[i].alert_id

\* C27. Referential integrity: after every createDatabase, open, store,
\* modify, erase, erase(ids) and clearDatabase that returns success, every
\* row of alertAssets and of alertAssetPlayOrderItems has the alert_id of a
\* row of alerts_v2, and load attaches to every alert the assets and the
\* play-order list stored with it: those of the call for the alert a store
\* has just written, and for every other alert those it had before the
\* call.
C27_ReferentialIntegrity ==
    (last.ok /\ last.op \in {"createDatabase", "open", "store", "modify",
                             "erase", "eraseIds", "clearDatabase"})
       => /\ HasParent(file, file.alertAssets)
          /\ HasParent(file, file.alertAssetPlayOrderItems)
          /\ \E before \in {AlertsOf(pre.db)} :
             \E after \in {AlertsOf(file)} :
                \A i \in DOMAIN after :
                   \/ /\ last.op = "store"
                      /\ after[i].dbId = last.after.dbId
                      /\ after[i].assets = last.alert.assets
                      /\ after[i].play = last.alert.play
                   \/ \E j \in DOMAIN before :
                         /\ before[j].token = after[i].token
                         /\ before[j].assets = after[i].assets
                         /\ before[j].play = after[i].play

\* The calls of the two threads have both returned success for the same
\* token and alerts_v2 holds two rows with it.
BothStoredToken ==
    /\ \A t \in Threads : calls[t].pc = "done" /\ calls[t].ok
    /\ \A t, u \in Threads : calls[t].alert.token = calls[u].alert.token
    /\ \E i, j \in DOMAIN file.alerts_v2.rows :
          /\ i # j
          /\ \A t \in Threads :
                /\ file.alerts_v2.rows[i].token = calls[t].alert.token
                /\ file.alerts_v2.rows[j].token = calls[t].alert.token

\* The calls of the two threads have both computed their id, and it is the
\* same.
BothComputedId ==
    /\ \A t \in Threads : calls[t].id > 0
    /\ \A t, u \in Threads : calls[t].id = calls[u].id

\* C28. Serialization is required: a state in which the store calls of two
\* threads have both returned success with alerts_v2 holding two rows of
\* their token, or have both computed the same id, is reached only when
\* the two calls overlapped; when the one call starts after the other has
\* returned no such state is reached.
C28_SerializationRequired ==
    (BothStoredToken \/ BothComputedId)
        => \A t \in Threads : calls[t].overlapped

\* The rows of a child table that belong to the alert with this id.
RowsOf(table, id) == SelectSeq(table.rows, LAMBDA r : r.alert_id = id)

\* C29. Erase acts on the alert it was given: after an erase(alert) on an
\* open store that returns success, whatever token and id the object
\* carries, alertExists(alert.token) is false, and every row of alerts_v2
\* with another token is still there with all the rows of alertAssets and
\* alertAssetPlayOrderItems under its id.
C29_EraseActsOnGiven ==
    (last.op = "erase" /\ last.ok /\ pre.isOpen) =>
        /\ ~alertExists(file, last.alert.token, FALSE)
        /\ \A i \in DOMAIN pre.db.alerts_v2.rows :
              \E row \in {pre.db.alerts_v2.rows[i]} :
                 row.token # last.alert.token =>
                    /\ \E j \in DOMAIN file.alerts_v2.rows :
                          file.alerts_v2.rows[j] = row
                    /\ RowsOf(file.alertAssets, row.id)
                          = RowsOf(pre.db.alertAssets, row.id)
                    /\ RowsOf(file.alertAssetPlayOrderItems, row.id)
                          = RowsOf(pre.db.alertAssetPlayOrderItems, row.id)

\* C30. Modify acts on the alert it was given: after a modify(alert) on an
\* open store that returns success, whatever token and id the object
\* carries, every row of alerts_v2 whose token is the alert's holds the
\* alert's state and scheduled time, and every row with another token is as
\* it was before the call.
C30_ModifyActsOnGiven ==
    (last.op = "modify" /\ last.ok /\ pre.isOpen) =>
        /\ Len(file.alerts_v2.rows) = Len(pre.db.alerts_v2.rows)
        /\ \A i \in DOMAIN file.alerts_v2.rows :
              \E old \in {pre.db.alerts_v2.rows[i]} :
              \E new \in {file.alerts_v2.rows[i]} :
                 IF new.token = last.alert.token
                 THEN /\ new.state = alertStateToDbField(last.alert.state).v
                      /\ new.unix = last.alert.unix
                      /\ new.iso = last.alert.iso
                 ELSE new = old

\* C31. Schema completeness after open: after every open and every
\* createDatabase that returns success, whatever an earlier failed
\* createDatabase or migration left in the file, the file has the three
\* tables alerts_v2, alertAssets and alertAssetPlayOrderItems, and a load
\* called next, with no engine failure, does not fail unless alerts_v2
\* holds a row it cannot decode.
C31_SchemaComplete ==
    (last.op \in {"open", "createDatabase"} /\ last.ok) =>
        /\ HasSchema(file)
        /\ Loaded(file).ok \/ HasForeignRow(file)

\* The alert is the one of the row, with the assets and the play-order list
\* of the child rows under the row's id.
IsAlertOfRow(db, alert, row) ==
    /\ alert.dbId = row.id
    /\ alert.token = row.token
    /\ \E as \in {RowsOf(db.alertAssets, row.id)} :
          /\ DOMAIN alert.assets = {as[k].avs_id : k \in DOMAIN as}
          /\ \A k \in DOMAIN as : alert.assets[as[k].avs_id] = as[k].url
    /\ alert.play = PlayOrderOf(db, row.id)

\* C32. Load depends only on the database: after a load that returns
\* success, whatever the collection held before the call, it holds one
\* alert per row of alerts_v2, in row order, each with the assets and the
\* play-order items of the rows under its id; and a second load into the
\* same collection leaves it as the first one did.
C32_LoadDependsOnlyOnDatabase ==
    (last.op = "load" /\ last.ok) =>
        /\ Len(last.out) = Len(pre.db.alerts_v2.rows)
        /\ \A i \in DOMAIN last.out :
              i \in DOMAIN pre.db.alerts_v2.rows
                 /\ IsAlertOfRow(pre.db, last.out[i], pre.db.alerts_v2.rows[i])
        /\ \E again \in {load(m_dbHandle, file, last.out, NoFault)} :
              again.ok /\ again.out = last.out

====
